---- MODULE Spec2Model ----
(***************************************************************************)
(* A model of gcp_pal.artifactregistry.ArtifactRegistry: the constructor   *)
(* that parses a path into a resource locator, the derived level / path /  *)
(* parent, and the ls / get / delete operations that dispatch on the level *)
(* and call the vendor client.                                             *)
(*                                                                         *)
(* Python strings are sequences of one-character strings, so that split,   *)
(* join, replace and startswith are computed character by character.       *)
(* Python's None is the one-element sequence None below: its element is    *)
(* not a single character, so no Python string equals it.                  *)
(***************************************************************************)
EXTENDS Naturals, Sequences, FiniteSets

None == <<"<None>">>

(* ---------------------------- text literals ---------------------------- *)

sProjectsSlash == <<"p", "r", "o", "j", "e", "c", "t", "s", "/">>
sProjects == <<"p", "r", "o", "j", "e", "c", "t", "s">>
sLocations == <<"l", "o", "c", "a", "t", "i", "o", "n", "s">>
sRepositories == <<"r", "e", "p", "o", "s", "i", "t", "o", "r", "i", "e", "s">>
sPackages == <<"p", "a", "c", "k", "a", "g", "e", "s">>
sVersions == <<"v", "e", "r", "s", "i", "o", "n", "s">>
sTags == <<"t", "a", "g", "s">>
sSha == <<"s", "h", "a", "2", "5", "6", ":">>
sPct2F == <<"%", "2", "F">>
sSlash == <<"/">>
sColon == <<":">>
sNone == <<"N", "o", "n", "e">>
sEuropeWest2 == <<"e", "u", "r", "o", "p", "e", "-", "w", "e", "s", "t", "2">>

(* ------------------------ Python string methods ------------------------ *)

\* bool(x) of a str-or-None value: None and "" are falsy.
Truthy(x) == x # None /\ x # <<>>

\* f"{x}": None is formatted as the text None.
Fmt(x) == IF x = None THEN sNone ELSE x

\* s.startswith(p)
StartsWith(s, p) == Len(s) >= Len(p) /\ SubSeq(s, 1, Len(p)) = p

\* Index of the first occurrence of sep in s at or after position i, 0 if none.
RECURSIVE FindFrom(_, _, _)
FindFrom(s, sep, i) ==
    IF i + Len(sep) - 1 > Len(s) THEN 0
    ELSE IF SubSeq(s, i, i + Len(sep) - 1) = sep THEN i
    ELSE FindFrom(s, sep, i + 1)

\* s.split(sep), sep non-empty: always at least one piece.
RECURSIVE Split(_, _)
Split(s, sep) ==
    LET k == FindFrom(s, sep, 1) IN
    IF k = 0 THEN <<s>>
    ELSE <<SubSeq(s, 1, k - 1)>> \o Split(SubSeq(s, k + Len(sep), Len(s)), sep)

\* sep.join(parts)
RECURSIVE Join(_, _)
Join(sep, parts) ==
    IF Len(parts) = 0 THEN <<>>
    ELSE IF Len(parts) = 1 THEN parts[1]
    ELSE parts[1] \o sep \o Join(sep, Tail(parts))

\* s.replace(old, new): leftmost non-overlapping occurrences.
Replace(s, old, new) == Join(new, Split(s, old))

\* parts[1::2]: the elements at the odd Python indexes.
EveryOther(parts) == [i \in 1..(Len(parts) \div 2) |-> parts[2 * i]]

\* parts[n:]
DropFirst(parts, n) == SubSeq(parts, n + 1, Len(parts))

\* parts[:-1]
DropLast(parts) == SubSeq(parts, 1, Len(parts) - 1)

(* ----------------------------- constructor ----------------------------- *)

\* ParseFull with the location left at the head of the remaining path
\* (path.split("/")[1:] for [2:]).
ParseFullKeepsLocation(path, project, location) ==
    IF path # None /\ StartsWith(path, sProjectsSlash)
    THEN LET short == Replace(Join(sSlash, EveryOther(Split(path, sSlash))),
                              sPct2F, sSlash)
             parts == Split(short, sSlash)
         IN  [project  |-> parts[1],
              location |-> IF Len(parts) > 1 THEN parts[2] ELSE None,
              path     |-> Join(sSlash, DropFirst(parts, 1))]
    ELSE [project |-> project, location |-> location, path |-> path]

\* Lines 34-51: a fully qualified path gives project, location and the
\* remaining shorthand path; any other path leaves the three as passed.
\* path.split("/")[0] cannot raise; [1] raises IndexError on a single piece.
ParseFull(path, project, location) ==
    IF path # None /\ StartsWith(path, sProjectsSlash)
    THEN LET short == Replace(Join(sSlash, EveryOther(Split(path, sSlash))),
                              sPct2F, sSlash)
             parts == Split(short, sSlash)
         IN  [project  |-> parts[1],
              location |-> IF Len(parts) > 1 THEN parts[2] ELSE None,
              path     |-> Join(sSlash, DropFirst(parts, 2))]
    ELSE [project |-> project, location |-> location, path |-> path]

\* Line 52: project or os.environ.get("PROJECT") or get_auth_default()[1];
\* env is the value of the two environment-derived operands.
DefaultProject(project, env) == IF Truthy(project) THEN project ELSE env

\* Lines 58-61: path.split("/")[0] always exists, so the keyword is replaced.
ParseRepository(path, repository) == Split(path, sSlash)[1]

\* Lines 62-71: the slice [1:] cannot raise, so the keyword is replaced.
ParseImage(path, image) ==
    LET rest == DropFirst(Split(path, sSlash), 1) IN
    IF Len(rest) > 1 THEN Join(sSlash, DropLast(rest))
    ELSE IF rest = <<>> THEN None
    ELSE rest[1]

\* Lines 72-75: the text after the first "sha256:", up to the next one.
ParseVersion(path, version) ==
    LET parts == Split(path, sSha) IN
    IF Len(parts) > 1 THEN parts[2] ELSE version

\* ParseTag with lines 77 and 78 exchanged: the image is cut first, so the
\* tag is looked up in a text without ":" and the IndexError leaves it alone.
ParseTagImageFirst(image, tag) ==
    IF image = None THEN [tag |-> tag, image |-> image]
    ELSE [tag |-> tag, image |-> Split(image, sColon)[1]]

\* Lines 76-80: image.split(":"); AttributeError (image is None) and
\* IndexError (no ":") leave tag and image as they are.
ParseTag(image, tag) ==
    IF image = None THEN [tag |-> tag, image |-> image]
    ELSE LET parts == Split(image, sColon) IN
         IF Len(parts) > 1 THEN [tag |-> parts[2], image |-> parts[1]]
         ELSE [tag |-> tag, image |-> image]

\* ClearVersion without lines 81-82.
KeepVersion(tag, version) == version

\* Lines 81-82: a tag clears the version.
ClearVersion(tag, version) == IF Truthy(tag) THEN None ELSE version

\* GetLevel with line 104 testing the tag alone.
GetLevelTagOnly(o) ==
    IF Truthy(o.tag) THEN "digest"
    ELSE IF Truthy(o.image) THEN "image"
    ELSE IF Truthy(o.repository) THEN "repository"
    ELSE IF Truthy(o.location) THEN "location"
    ELSE IF Truthy(o.project) THEN "project"
    ELSE "None"

\* Lines 97-115.
GetLevel(o) ==
    IF Truthy(o.tag) \/ Truthy(o.version) THEN "digest"
    ELSE IF Truthy(o.image) THEN "image"
    ELSE IF Truthy(o.repository) THEN "repository"
    ELSE IF Truthy(o.location) THEN "location"
    ELSE IF Truthy(o.project) THEN "project"
    ELSE "None"

PathProject(o) == sProjects \o sSlash \o Fmt(o.project)
PathLocation(o) == PathProject(o) \o sSlash \o sLocations \o sSlash \o Fmt(o.location)
PathRepository(o) ==
    PathLocation(o) \o sSlash \o sRepositories \o sSlash \o Fmt(o.repository)
PathImage(o) == PathRepository(o) \o sSlash \o sPackages \o sSlash \o Fmt(o.image)
PathTag(o) == PathImage(o) \o sSlash \o sTags \o sSlash \o Fmt(o.tag)
PathVersion(o) ==
    PathImage(o) \o sSlash \o sVersions \o sSlash \o sSha \o Fmt(o.version)

\* Lines 117-144; o.level is the stored level.
GetPath(o, shorten) ==
    LET path == IF o.level = "project" THEN PathProject(o)
                ELSE IF o.level = "location" THEN PathLocation(o)
                ELSE IF o.level = "repository" THEN PathRepository(o)
                ELSE IF o.level = "image" THEN PathImage(o)
                ELSE IF o.level = "digest" /\ Truthy(o.tag) THEN PathTag(o)
                ELSE IF o.level = "digest" /\ Truthy(o.version) THEN PathVersion(o)
                ELSE <<>>
    IN  IF o.level = "None" THEN <<>>
        ELSE IF shorten THEN Join(sSlash, EveryOther(Split(path, sSlash)))
        ELSE path

\* Lines 146-158.
GetParent(o) ==
    IF o.location # None
    THEN sProjects \o sSlash \o Fmt(o.project) \o sSlash \o sLocations \o sSlash
         \o Fmt(o.location)
    ELSE IF o.project # None THEN sProjects \o sSlash \o Fmt(o.project)
    ELSE <<>>

\* The fields after lines 34-82, before level, path and parent are derived.
\* Only a str path reaches here.
ParseFields(a) ==
    LET full == ParseFull(a.path, a.project, a.location)
        img  == ParseImage(full.path, a.image)
        tg   == ParseTag(img, a.tag)
    IN  [project    |-> DefaultProject(full.project, a.env),
         location   |-> full.location,
         repository |-> ParseRepository(full.path, a.repository),
         image      |-> tg.image,
         tag        |-> tg.tag,
         version    |-> ClearVersion(tg.tag, ParseVersion(full.path, a.version))]

WithLevel(f) == [f EXCEPT !.level = GetLevel(f)]
WithPath(f) == [f EXCEPT !.path = GetPath(f, TRUE)]
WithParent(f) == [f EXCEPT !.parent = GetParent(f)]

\* Lines 83-95 on the parsed fields.
Derive(f) ==
    WithParent(WithPath(WithLevel(
        [project |-> f.project, location |-> f.location,
         repository |-> f.repository, image |-> f.image, tag |-> f.tag,
         version |-> f.version, level |-> "None", path |-> <<>>,
         parent |-> <<>>])))

\* path.split at line 59 on a path that is not a str raises AttributeError,
\* which the except IndexError clause does not catch.
CtorRaises(a) == a.path = None

\* ArtifactRegistry(**a): the object built, when no exception is raised.
Ctor(a) == Derive(ParseFields(a))

(* ------------------------------ operations ----------------------------- *)

sRepositoriesDir == sSlash \o sRepositories \o sSlash
sPackagesDir == sSlash \o sPackages \o sSlash
sVersionsDir == sSlash \o sVersions \o sSlash \o sSha
sTagsDir == sSlash \o sTags \o sSlash

\* x or y
Or(x, y) == IF Truthy(x) THEN x ELSE y

\* f"{self.parent}/repositories/{repository}"
RepositoryName(o, repository) == o.parent \o sRepositoriesDir \o Fmt(repository)

\* f"{self.parent}/repositories/{repository}/packages/{image}"
ImageName(o, repository, image) ==
    RepositoryName(o, repository) \o sPackagesDir \o Fmt(image)

\* f"{self.parent}/repositories/{repository}/packages/{image}/versions/sha256:{version}"
VersionName(o, repository, image, version) ==
    ImageName(o, repository, image) \o sVersionsDir \o Fmt(version)

\* f"{self.parent}/repositories/{repository}/packages/{image}/tags/{tag}"
TagName(o, repository, image, tag) ==
    ImageName(o, repository, image) \o sTagsDir \o Fmt(tag)

\* One request to the vendor client.
Call(method, name) == [method |-> method, name |-> name]

\* What an operation leaves behind: the vendor calls it made in order, the
\* exception that left it ("none" when it returned), what it returned and
\* whether it wrote its "Deleted ..." log line; and, filled in by After, the
\* failures the vendor raised during it and how output.result() ended ("no"
\* when it was not called).
Outcome(calls, e, ret, logged) ==
    [calls |-> calls, exc |-> e, ret |-> ret, logged |-> logged,
     faults |-> <<>>, waited |-> "no"]

\* The failures among the vendor's answers: a tag, no tag and a plain return
\* are answers, anything else is an exception the vendor raised.
IsFault(answer) == answer \notin {"ok", "found", "None"}
Faults(answers) == SelectSeq(answers, IsFault)

\* out, for an operation that got these answers from the vendor's calls, in
\* order, and whose output.result() ended as waited.
After(out, answers, waited) ==
    [out EXCEPT !.faults = Faults(answers) \o
                            Faults(IF waited = "no" THEN <<>> ELSE <<waited>>),
                !.waited = waited]

\* A listing or lookup of one vendor call: the call raises or answers.
OneCall(method, name, answer, ret) ==
    IF answer = "error"
    THEN After(Outcome(<<Call(method, name)>>, "VendorError", "none", FALSE),
               <<answer>>, "no")
    ELSE After(Outcome(<<Call(method, name)>>, "none", ret, FALSE),
               <<answer>>, "no")

\* The answers of the vendor to one operation: of its first call, of the tag
\* lookup (a tag or None), of the call after the lookup, and of result().
Vendor ==
    [first : {"ok", "error"}, tag : {"found", "None"},
     second : {"ok", "error"},
     result : {"ok", "FailedPrecondition", "error"}]

\* The digest the vendor's tag points at.
sTagDigest == <<"d">>

\* Lines 160-174.
LsRepositories(o, v) == OneCall("list_repositories", o.parent, v.first, "list")

\* Lines 192-213.
LsImages(o, repository, image, v) ==
    OneCall("list_packages", RepositoryName(o, Or(repository, o.repository)),
            v.first, "list")

\* Lines 215-239.
LsVersions(o, repository, image, tag, v) ==
    OneCall("list_versions",
            ImageName(o, Or(repository, o.repository), Or(image, o.image)),
            v.first, "list")

\* Lines 266-280: no branch for the digest level or for no level.
Ls(o, v) ==
    IF o.level = "image" THEN LsVersions(o, None, None, None, v)
    ELSE IF o.level = "repository" THEN LsImages(o, None, None, v)
    ELSE IF o.level = "location" THEN LsRepositories(o, v)
    ELSE IF o.level = "project" THEN Outcome(<<>>, "ValueError", "none", FALSE)
    ELSE Outcome(<<>>, "none", "None", FALSE)

\* Lines 282-294.
GetRepository(o, repository, v) ==
    OneCall("get_repository", RepositoryName(o, Or(repository, o.repository)),
            v.first, "resource")

\* Lines 296-310.
GetImage(o, repository, image, v) ==
    OneCall("get_package",
            ImageName(o, Or(repository, o.repository), Or(image, o.image)),
            v.first, "resource")

\* Lines 312-328; answer is the vendor's answer to this call.
GetVersion(o, repository, image, version, answer) ==
    OneCall("get_version",
            VersionName(o, Or(repository, o.repository), Or(image, o.image),
                        Or(version, o.version)),
            answer, "resource")

\* A lookup that answers None for a tag the vendor does not have.
GetVersionFromTagLenient(o, repository, image, tag, v) ==
    LET r    == Or(repository, o.repository)
        i    == Or(image, o.image)
        call == Call("get_tag", TagName(o, r, i, Or(tag, o.tag)))
        name == VersionName(o, r, i, sTagDigest)
    IN  IF v.first = "error"
        THEN [calls |-> <<call>>, exc |-> "VendorError", version |-> None,
              answers |-> <<v.first>>]
        ELSE IF v.tag = "None"
        THEN [calls |-> <<call>>, exc |-> "none", version |-> None,
              answers |-> <<v.first, v.tag>>]
        ELSE [calls |-> <<call>>, exc |-> "none",
              version |-> Replace(name, ImageName(o, r, i) \o sVersionsDir, <<>>),
              answers |-> <<v.first, v.tag>>]

\* Lines 330-354: the lookup of the tag, and the digest cut out of the name
\* of the version it points at. The vendor names that version under the
\* package name it was asked for.
GetVersionFromTag(o, repository, image, tag, v) ==
    LET r    == Or(repository, o.repository)
        i    == Or(image, o.image)
        call == Call("get_tag", TagName(o, r, i, Or(tag, o.tag)))
        name == VersionName(o, r, i, sTagDigest)
    IN  IF v.first = "error"
        THEN [calls |-> <<call>>, exc |-> "VendorError", version |-> None,
              answers |-> <<v.first>>]
        ELSE IF v.tag = "None"
        THEN [calls |-> <<call>>, exc |-> "ValueError", version |-> None,
              answers |-> <<v.first, v.tag>>]
        ELSE [calls |-> <<call>>, exc |-> "none",
              version |-> Replace(name, ImageName(o, r, i) \o sVersionsDir, <<>>),
              answers |-> <<v.first, v.tag>>]

\* get_tag that returns what the lookup of the tag found.
GetTagLookupOnly(o, repository, image, tag, v) ==
    LET t == GetVersionFromTag(o, repository, image, tag, v)
    IN  After(Outcome(t.calls, t.exc,
                      IF t.exc = "none" THEN "resource" ELSE "none", FALSE),
              t.answers, "no")

\* Lines 356-370.
GetTag(o, repository, image, tag, v) ==
    LET t == GetVersionFromTag(o, repository, image, tag, v)
        g == GetVersion(o, repository, image, t.version, v.second)
    IN  IF t.exc # "none"
        THEN After(Outcome(t.calls, t.exc, "none", FALSE), t.answers, "no")
        ELSE After(Outcome(t.calls \o g.calls, g.exc, g.ret, FALSE),
                   t.answers \o <<v.second>>, "no")

\* Get with the location level answered by a look at the repository.
GetBestEffort(o, v) ==
    IF o.level \in {"repository", "location"} THEN GetRepository(o, None, v)
    ELSE IF o.level = "image" THEN GetImage(o, None, None, v)
    ELSE IF o.level = "digest"
    THEN IF Truthy(o.tag) THEN GetTag(o, None, None, None, v)
         ELSE IF Truthy(o.version) THEN GetVersion(o, None, None, None, v.first)
         ELSE Outcome(<<>>, "none", "None", FALSE)
    ELSE Outcome(<<>>, "ValueError", "none", FALSE)

\* Lines 372-389.
Get(o, v) ==
    IF o.level = "repository" THEN GetRepository(o, None, v)
    ELSE IF o.level = "image" THEN GetImage(o, None, None, v)
    ELSE IF o.level = "digest"
    THEN IF Truthy(o.tag) THEN GetTag(o, None, None, None, v)
         ELSE IF Truthy(o.version) THEN GetVersion(o, None, None, None, v.first)
         ELSE Outcome(<<>>, "none", "None", FALSE)
    ELSE Outcome(<<>>, "ValueError", "none", FALSE)

\* A long-running delete: the call, output.result(), the log line, the
\* return of the operation. calls are the calls made before this one.
Deletion(calls, method, name, answer, result) ==
    IF answer = "error"
    THEN After(Outcome(calls \o <<Call(method, name)>>, "VendorError", "none",
                       FALSE), <<answer>>, "no")
    ELSE IF result # "ok"
    THEN After(Outcome(calls \o <<Call(method, name)>>, "VendorError", "none",
                       FALSE), <<answer>>, result)
    ELSE After(Outcome(calls \o <<Call(method, name)>>, "none", "operation",
                       TRUE), <<answer>>, result)

\* Lines 391-406.
DeleteRepository(o, repository, v) ==
    Deletion(<<>>, "delete_repository",
             RepositoryName(o, Or(repository, o.repository)), v.first, v.result)

\* Lines 408-425.
DeleteImage(o, repository, image, v) ==
    Deletion(<<>>, "delete_package",
             ImageName(o, Or(repository, o.repository), Or(image, o.image)),
             v.first, v.result)

\* Lines 427-452: a FailedPrecondition of result() is caught (a breakpoint
\* stops on "because it is tagged." and execution goes on), so the log line
\* is written and the operation returned.
DeleteVersion(o, repository, image, version, v) ==
    LET call == Call("delete_version",
                     VersionName(o, Or(repository, o.repository),
                                 Or(image, o.image), Or(version, o.version)))
    IN  IF v.first = "error"
        THEN After(Outcome(<<call>>, "VendorError", "none", FALSE),
                   <<v.first>>, "no")
        ELSE IF v.result = "error"
        THEN After(Outcome(<<call>>, "VendorError", "none", FALSE),
                   <<v.first>>, v.result)
        ELSE After(Outcome(<<call>>, "none", "operation", TRUE),
                   <<v.first>>, v.result)

\* Lines 454-476: delete_tag is called with the name of the version the tag
\* points at.
DeleteTag(o, repository, image, tag, v) ==
    LET r == Or(repository, o.repository)
        i == Or(image, o.image)
        t == GetVersionFromTag(o, r, i, Or(tag, o.tag), v)
    IN  IF t.exc # "none"
        THEN After(Outcome(t.calls, t.exc, "none", FALSE), t.answers, "no")
        ELSE Deletion(t.calls, "delete_tag", VersionName(o, r, i, t.version),
                      v.second, v.result)

\* Lines 478-495.
Delete(o, v) ==
    IF o.level = "repository" THEN DeleteRepository(o, None, v)
    ELSE IF o.level = "image" THEN DeleteImage(o, None, None, v)
    ELSE IF o.level = "digest"
    THEN IF Truthy(o.tag) THEN DeleteTag(o, None, None, None, v)
         ELSE IF Truthy(o.version) THEN DeleteVersion(o, None, None, None, v)
         ELSE Outcome(<<>>, "none", "None", FALSE)
    ELSE Outcome(<<>>, "ValueError", "none", FALSE)

\* Lines 176-190.
LsFiles(o, repository, v) ==
    OneCall("list_files", RepositoryName(o, Or(repository, o.repository)),
            v.first, "list")

\* Lines 241-264; the breakpoint() of line 258 stops in the debugger and the
\* call goes on from there.
LsTags(o, repository, image, version, v) ==
    OneCall("list_tags",
            VersionName(o, Or(repository, o.repository), Or(image, o.image),
                        Or(version, o.version)),
            v.first, "list")

\* The methods that can be called with overrides of the object's fields.
Methods ==
    {"ls_repositories", "ls_files", "ls_images", "ls_versions", "ls_tags",
     "get_repository", "get_image", "get_version", "get_version_from_tag",
     "get_tag", "delete_repository", "delete_image", "delete_version",
     "delete_tag"}

\* obj.m(...) with the overrides k (None where the argument is left out).
Method(m, o, k, v) ==
    CASE m = "ls_repositories" -> LsRepositories(o, v)
      [] m = "ls_files" -> LsFiles(o, k.repository, v)
      [] m = "ls_images" -> LsImages(o, k.repository, k.image, v)
      [] m = "ls_versions" -> LsVersions(o, k.repository, k.image, k.tag, v)
      [] m = "ls_tags" -> LsTags(o, k.repository, k.image, k.version, v)
      [] m = "get_repository" -> GetRepository(o, k.repository, v)
      [] m = "get_image" -> GetImage(o, k.repository, k.image, v)
      [] m = "get_version" ->
            GetVersion(o, k.repository, k.image, k.version, v.first)
      [] m = "get_version_from_tag" ->
            LET t == GetVersionFromTag(o, k.repository, k.image, k.tag, v)
            IN  After(Outcome(t.calls, t.exc,
                              IF t.exc = "none" THEN "digest" ELSE "none", FALSE),
                      t.answers, "no")
      [] m = "get_tag" -> GetTag(o, k.repository, k.image, k.tag, v)
      [] m = "delete_repository" -> DeleteRepository(o, k.repository, v)
      [] m = "delete_image" -> DeleteImage(o, k.repository, k.image, v)
      [] m = "delete_version" ->
            DeleteVersion(o, k.repository, k.image, k.version, v)
      [] m = "delete_tag" -> DeleteTag(o, k.repository, k.image, k.tag, v)

(* ----------------- CloudFunctions (gcp_tools/cloudfunctions.py) --------- *)

sFunctionsDir == sSlash \o <<"f", "u", "n", "c", "t", "i", "o", "n", "s">> \o sSlash
sHttps == <<"h", "t", "t", "p", "s", ":", "/", "/">>
sGs == <<"g", "s", ":", "/", "/">>
sCloudFunctions == <<"c", "l", "o", "u", "d", "-", "f", "u", "n", "c", "t", "i", "o", "n", "s">>
sZip == <<".", "z", "i", "p">>

\* Line 31: f"projects/{self.project}/locations/{self.location}".
CFParent(project, location) ==
    sProjectsSlash \o Fmt(project) \o sSlash \o sLocations \o sSlash \o Fmt(location)

\* Lines 33 and 74: f"{self.parent}/functions/{name}".
FunctionId(parent, name) == parent \o sFunctionsDir \o Fmt(name)

\* A constructor that never looks in the cache: every instance gets a client
\* of its own, and the entry of its project is overwritten.
CFInitUncached(cache, made, name, project, location, env) ==
    LET p      == DefaultProject(project, env)
        parent == CFParent(p, location)
        client == Len(made) + 1
    IN  [inst    |-> [name |-> name, project |-> p, location |-> location,
                      parent |-> parent, location_id |-> parent,
                      function_id |-> FunctionId(parent, name),
                      client |-> client],
         clients |-> [q \in DOMAIN cache \cup {p} |->
                         IF q = p THEN client ELSE cache[q]],
         made    |-> Append(made, p)]

\* Lines 27-39: the instance, and the class-level cache and the clients made
\* so far after the construction. cache is CloudFunctions._clients, made[k]
\* the project the k-th FunctionServiceClient() was made for; a client is
\* named by its place in made.
CFInit(cache, made, name, project, location, env) ==
    LET p      == DefaultProject(project, env)
        parent == CFParent(p, location)
        hit    == p \in DOMAIN cache
        client == IF hit THEN cache[p] ELSE Len(made) + 1
    IN  [inst    |-> [name |-> name, project |-> p, location |-> location,
                      parent |-> parent, location_id |-> parent,
                      function_id |-> FunctionId(parent, name),
                      client |-> client],
         clients |-> IF hit THEN cache
                     ELSE [q \in DOMAIN cache \cup {p} |->
                              IF q = p THEN client ELSE cache[q]],
         made    |-> IF hit THEN made ELSE Append(made, p)]

\* Lines 28-33: the fields of an instance before it has a client.
Fields(name, project, location, env) ==
    LET p      == DefaultProject(project, env)
        parent == CFParent(p, location)
    IN  [name |-> name, project |-> p, location |-> location,
         parent |-> parent, location_id |-> parent,
         function_id |-> FunctionId(parent, name), client |-> 0]

\* Line 35: self.project in self._clients.
CacheHit(cache, project) == project \in DOMAIN cache

\* Line 39: self._clients[self.project] = self.client.
Stored(cache, project, client) ==
    [q \in DOMAIN cache \cup {project} |->
        IF q = project THEN client ELSE cache[q]]

\* A local step of an operation that is not a vendor client call.
Step(what, arg) == [what |-> what, arg |-> arg]

\* What a CloudFunctions operation leaves behind: an Outcome, the local steps
\* it took in order, and the functions that exist at the vendor after it.
FOut(steps, calls, e, ret, answers, waited, remote) ==
    LET o == After(Outcome(calls, e, ret, FALSE), answers, waited)
    IN  [calls |-> o.calls, exc |-> o.exc, ret |-> o.ret, logged |-> o.logged,
         faults |-> o.faults, waited |-> o.waited,
         steps |-> steps, remote |-> remote]

\* The exception a failed vendor call raises.
Raised(answer) == IF answer = "NotFound" THEN "NotFound" ELSE "VendorError"

\* Lines 44-61.
CFLs(i, remote, answer) ==
    LET call == Call("list_functions", CFParent(i.project, i.location))
    IN  IF answer = "ok"
        THEN FOut(<<>>, <<call>>, "none", "list", <<answer>>, "no", remote)
        ELSE FOut(<<>>, <<call>>, Raised(answer), "none", <<answer>>, "no", remote)

\* Lines 73-76: the function get(name) asks for.
GetTarget(i, name) ==
    IF Truthy(name) THEN FunctionId(i.parent, name) ELSE i.function_id

\* Lines 63-79: answer is "found", "NotFound" or "error".
CFGet(i, name, remote, answer) ==
    LET call == Call("get_function", GetTarget(i, name))
    IN  IF answer = "found"
        THEN FOut(<<>>, <<call>>, "none", "function", <<answer>>, "no", remote)
        ELSE FOut(<<>>, <<call>>, Raised(answer), "none", <<answer>>, "no", remote)

\* Lines 81-92: every exception of get() is caught.
CFExists(i, remote, answer) ==
    LET g == CFGet(i, None, remote, answer)
    IN  IF g.exc = "none" THEN [g EXCEPT !.ret = "True"]
        ELSE [g EXCEPT !.exc = "none", !.ret = "False"]

\* Lines 94-110: the request names the function by self.name.
CFCall(i, remote, answer) ==
    LET call == Call("call_function", i.name)
    IN  IF answer = "ok"
        THEN FOut(<<>>, <<call>>, "none", "result", <<answer>>, "no", remote)
        ELSE FOut(<<>>, <<call>>, Raised(answer), "none", <<answer>>, "no", remote)

\* Line 239: the function is updated, not created.
Replaces(function_exists, if_exists) ==
    function_exists /\ if_exists = "REPLACE"

\* A deployment that returns the operation without waiting for it.
HandleDeployResponseNoWait(i, steps, calls, answers, wait, remote, v) ==
    LET g == CFGet(i, None, remote, v.after)
    IN  IF g.exc # "none"
        THEN FOut(steps, calls \o g.calls, g.exc, "none",
                  answers \o <<v.after>>, "no", remote)
        ELSE FOut(steps, calls \o g.calls, "none", "operation",
                  answers \o <<v.after>>, "no", remote)

\* Lines 257-267, and the return of line 255: response.result() if
\* wait_to_complete, then self.get(). calls and answers are those of the
\* deployment so far.
HandleDeployResponse(i, steps, calls, answers, wait, remote, v) ==
    LET g      == CFGet(i, None, remote, v.after)
        waited == IF wait THEN v.result ELSE "no"
    IN  IF wait /\ v.result # "ok"
        THEN FOut(steps, calls, "VendorError", "none", answers, waited, remote)
        ELSE IF g.exc # "none"
        THEN FOut(steps, calls \o g.calls, g.exc, "none",
                  answers \o <<v.after>>, waited, remote)
        ELSE FOut(steps, calls \o g.calls, "none", "operation",
                  answers \o <<v.after>>, waited, remote)

\* Lines 190-255. steps are the local steps taken before; v are the vendor's
\* answers to get_function, to update_function, to create_function, to
\* result() and to the get_function that follows. A function the vendor
\* accepted for creation exists from then on.
DeployFromRepo(i, steps, source, if_exists, wait, remote, v) ==
    LET steps1  == Append(steps, Step("deploy_from_repo", source))
        e       == CFExists(i, remote, v.get)
        replace == Replaces(e.ret = "True", if_exists)
        call    == Call(IF replace THEN "update_function" ELSE "create_function",
                        i.function_id)
        calls1  == Append(e.calls, call)
        answer  == IF replace THEN v.update ELSE v.create
        remote1 == IF ~replace /\ answer = "ok"
                   THEN remote \cup {i.function_id} ELSE remote
    IN  IF answer # "ok"
        THEN FOut(steps1, calls1, Raised(answer), "none",
                  <<v.get, answer>>, "no", remote)
        ELSE HandleDeployResponse(i, steps1, calls1, <<v.get, answer>>, wait,
                                  remote1, v)

\* Storage(path).path: the path under gs:// (tests/test_storage.py 37-40).
StoragePath(path) == IF StartsWith(path, sGs) THEN path ELSE sGs \o path

\* Lines 181-182: f"{self.project}-cloud-functions/cloud-functions/{self.name}/{self.name}.zip".
UploadPath(i) ==
    Fmt(i.project) \o <<"-">> \o sCloudFunctions \o sSlash \o sCloudFunctions
    \o sSlash \o Fmt(i.name) \o sSlash \o Fmt(i.name) \o sZip

\* deploy_from_zip without the look at the disk.
DeployFromZipUnchecked(i, steps, source, onDisk, if_exists, wait, remote, v) ==
    DeployFromRepo(i, steps \o <<Step("deploy_from_zip", source),
                                 Step("zip_directory", source),
                                 Step("Storage.upload", UploadPath(i))>>,
                   StoragePath(UploadPath(i)), if_exists, wait, remote, v)

\* Lines 155-188. onDisk is what os.path.exists(source) answers; zipping and
\* the upload are taken to succeed.
DeployFromZip(i, steps, source, onDisk, if_exists, wait, remote, v) ==
    LET steps1 == steps \o <<Step("deploy_from_zip", source),
                             Step("os.path.exists", source)>>
        steps2 == steps1 \o <<Step("zip_directory", source),
                              Step("Storage.upload", UploadPath(i))>>
    IN  IF ~onDisk
        THEN FOut(steps1, <<>>, "FileNotFoundError", "none", <<>>, "no", remote)
        ELSE DeployFromRepo(i, steps2, StoragePath(UploadPath(i)), if_exists,
                            wait, remote, v)

\* Lines 112-153.
Deploy(i, source, onDisk, if_exists, wait, remote, v) ==
    IF StartsWith(source, sHttps) \/ StartsWith(source, sGs)
    THEN DeployFromRepo(i, <<>>, source, if_exists, wait, remote, v)
    ELSE DeployFromZip(i, <<>>, source, onDisk, if_exists, wait, remote, v)

(* ------------------------------- inputs -------------------------------- *)

\* The most segments of a shorthand path the model passes to the constructor.
MaxSegs == 3

\* The keys of a fully qualified name, in order (docstring, line 24).
Keys == <<sProjects, sLocations, sRepositories, sPackages, sVersions>>

\* Values of a fully qualified name: plain, empty, with ":" and with "%2F".
Comp == {<<"a">>, <<"b">>, <<>>, <<"a", ":", "b">>, <<"a", "%", "2", "F", "b">>}

\* Segments of a shorthand path: plain, empty, image:tag, image with an empty
\* tag, a digest, and the word that starts a fully qualified name.
Seg == {<<"a">>, <<"b">>, <<>>, <<"a", ":", "t">>, <<"a", ":">>,
        sSha \o <<"v">>, sProjects}

\* projects/v1/locations/v2/...: the last of five values is a digest.
RECURSIVE FullName(_, _)
FullName(vals, n) ==
    IF n = 0 THEN <<>>
    ELSE (IF n = 1 THEN <<>> ELSE FullName(vals, n - 1) \o sSlash)
         \o Keys[n] \o sSlash
         \o (IF n = Len(Keys) THEN sSha ELSE <<>>) \o vals[n]

FullPaths ==
    {FullName(vals, Len(vals)) :
        vals \in UNION {[1..k -> Comp] : k \in 1..Len(Keys)}}
    \cup {FullName(vals, Len(vals)) \o sSlash \o Keys[Len(vals) + 1] :
            vals \in UNION {[1..k -> Comp] : k \in 1..2}}

ShortPaths == {Join(sSlash, segs) : segs \in UNION {[1..k -> Seg] : k \in 1..MaxSegs}}

Opt(v) == {None, v}

\* The constructor's defaults (lines 8-14).
DefaultArgs ==
    [path |-> <<>>, project |-> None, location |-> sEuropeWest2,
     repository |-> None, image |-> None, version |-> None, tag |-> None,
     env |-> <<"e">>]

\* Fully qualified paths with every combination of the project, version and
\* tag keywords.
FullArgs ==
    {[DefaultArgs EXCEPT !.path = p, !.project = pr, !.version = v, !.tag = t] :
        p \in FullPaths, pr \in Opt(<<"p">>), v \in Opt(<<"w">>),
        t \in Opt(<<"k">>)}

\* Shorthand paths with every combination of the four resource keywords.
ShortArgs ==
    {[DefaultArgs EXCEPT !.path = p, !.repository = r, !.image = i,
                         !.version = v, !.tag = t] :
        p \in ShortPaths, r \in Opt(<<"r">>), i \in Opt(<<"i">>),
        v \in Opt(<<"w">>), t \in Opt(<<"k">>)}

\* No path: keywords only, with and without a project in the environment.
KeywordArgs ==
    {[DefaultArgs EXCEPT !.project = pr, !.location = l, !.repository = r,
                         !.image = i, !.version = v, !.tag = t, !.env = e] :
        pr \in Opt(<<"p">>), l \in {None, <<>>, sEuropeWest2},
        r \in Opt(<<"r">>), i \in Opt(<<"i">>), v \in Opt(<<"w">>),
        t \in Opt(<<"k">>), e \in Opt(<<"e">>)}

\* A path that is not a str.
NonePathArgs ==
    {[DefaultArgs EXCEPT !.path = None, !.repository = r] : r \in Opt(<<"r">>)}

CtorArgs == FullArgs \cup ShortArgs \cup KeywordArgs \cup NonePathArgs

\* The objects the operations are run on: shorthand paths, with and without
\* a location and a tag keyword.
OpsArgs ==
    {[DefaultArgs EXCEPT !.path = p, !.location = l, !.tag = t] :
        p \in ShortPaths, l \in Opt(sEuropeWest2), t \in Opt(<<"k">>)}

\* The most segments of a shorthand path of an object whose methods are
\* called one by one.
MaxMethodSegs == 2

MethodArgs ==
    {[DefaultArgs EXCEPT !.path = Join(sSlash, segs)] :
        segs \in UNION {[1..k -> Seg] : k \in 1..MaxMethodSegs}}

\* The per-call overrides: none given, or all four.
NoOverrides ==
    [repository |-> None, image |-> None, version |-> None, tag |-> None]
Overrides ==
    {NoOverrides,
     [repository |-> <<"R">>, image |-> <<"I">>, version |-> <<"W">>,
      tag |-> <<"K">>]}

\* The answers of the vendor that a method can get.
Asks(m) ==
    CASE m \in {"delete_repository", "delete_image", "delete_version"} ->
            {"first", "result"}
      [] m = "get_version_from_tag" -> {"first", "tag"}
      [] m = "get_tag" -> {"first", "tag", "second"}
      [] m = "delete_tag" -> {"first", "tag", "second", "result"}
      [] OTHER -> {"first"}
VendorOf(m) ==
    {v \in Vendor : /\ "tag" \notin Asks(m) => v.tag = "found"
                    /\ "second" \notin Asks(m) => v.second = "ok"
                    /\ "result" \notin Asks(m) => v.result = "ok"}

\* The most CloudFunctions instances constructed in one process.
MaxInstances == 3

\* The most threads that construct a CloudFunctions instance at a time.
MaxThreads == 2

\* The arguments of the CloudFunctions constructor and the project of the
\* environment.
CFNames == Opt(<<"f">>)
CFProjects == {None, <<"p">>, <<"q">>}
CFEnv == <<"e">>

\* Sources of a deployment: a repository, a bucket object, a directory that
\* may be on the disk, and a text that only looks like a repository.
LocalSources == {<<"d">>}
Sources ==
    {sHttps \o <<"r">>, sGs \o <<"b", "/", "o">>,
     <<"h", "t", "t", "p", ":", "/", "/", "r">>} \cup LocalSources

IfExists == {"REPLACE", "FAIL"}

\* The answers of the vendor to one deployment: of the first get_function,
\* of update_function, of create_function, of result() and of the
\* get_function after it.
CFVendor ==
    [get : {"found", "NotFound", "error"}, update : {"ok", "error"},
     create : {"ok", "error"}, result : {"ok", "error"},
     after : {"found", "error"}]

\* The answers get_function can give for a name: the function when it
\* exists, NotFound when it does not, and any other failure at any time.
GetAnswers(function_id, remote) ==
    IF function_id \in remote THEN {"found", "error"} ELSE {"NotFound", "error"}

\* The answers the vendor can give about one function: an existing function
\* is not created again and a missing one is not updated.
DeployAnswers(function_id, remote) ==
    {v \in CFVendor :
        /\ v.get \in GetAnswers(function_id, remote)
        /\ function_id \in remote => v.create = "error"
        /\ function_id \notin remote => v.update = "error"}

(* -------------------------------- state -------------------------------- *)

VARIABLES
    pc,     \* "start", "constructed", "raised" or "reparsed"
    args,   \* the arguments of the constructor call
    obj,    \* the ArtifactRegistry object, NoObj before construction
    exc,    \* the exception the last call raised, "none" if it returned
    obj2,   \* the object built from obj's canonical path, NoObj before that
    op,     \* the last operation called on obj: "none", "ls", "get", "delete"
    calls,  \* the vendor calls that operation made, in order
    ret,    \* what it returned: "none", "None", "list", "resource", "operation"
    logged, \* whether it wrote its "Deleted ..." log line
    faults, \* the failures the vendor raised during it, in order
    waited, \* how its output.result() ended, "no" if it was not called
    clients, \* CloudFunctions._clients: project -> client
    made,   \* made[k]: the project the k-th vendor client was made for
    insts,  \* the CloudFunctions instances constructed so far, in order
    remote, \* the names of the functions that exist at the vendor
    disk,   \* the paths that exist on the local disk
    cfargs, \* the arguments of the last CloudFunctions operation
    steps,  \* the local steps that operation took, in order
    threads \* threads[t]: where thread t is in __init__, and its instance

vars == <<pc, args, obj, exc, obj2, op, calls, ret, logged, faults, waited,
          clients, made, insts, remote, disk, cfargs, steps, threads>>
opvars == <<op, calls, ret, logged, faults, waited>>
cfvars == <<clients, made, insts, remote, disk, cfargs, steps, threads>>

\* CloudFunctions._clients = {} (line 25).
NoClients == [q \in {} |-> 0]

\* The arguments of an operation, at their defaults; self is the place of the
\* instance in insts.
NoArgs ==
    [self |-> 0, name |-> None, source |-> None, if_exists |-> "REPLACE",
     wait |-> TRUE]

\* No CloudFunctions instance has been constructed.
CFUnused ==
    /\ clients = NoClients
    /\ made = <<>>
    /\ insts = <<>>
    /\ remote = {}
    /\ disk = {}
    /\ cfargs = NoArgs
    /\ steps = <<>>
    /\ threads = <<>>

NoObj == Derive([project |-> None, location |-> None, repository |-> None,
                 image |-> None, tag |-> None, version |-> None])

InitWith(argset) ==
    /\ pc = "start"
    /\ args \in argset
    /\ obj = NoObj
    /\ exc = "none"
    /\ obj2 = NoObj
    /\ op = "none"
    /\ calls = <<>>
    /\ ret = "none"
    /\ logged = FALSE
    /\ faults = <<>>
    /\ waited = "no"
    /\ CFUnused

Init == InitWith(CtorArgs)

InitOps == InitWith(OpsArgs)

\* ArtifactRegistry(path, project, location, repository, image, version, tag)
Construct ==
    /\ pc = "start"
    /\ IF CtorRaises(args)
       THEN /\ pc' = "raised"
            /\ exc' = "AttributeError"
            /\ obj' = obj
       ELSE /\ pc' = "constructed"
            /\ exc' = "none"
            /\ obj' = Ctor(args)
    /\ UNCHANGED <<args, obj2>>
    /\ UNCHANGED opvars
    /\ UNCHANGED cfvars

\* ArtifactRegistry(obj._get_path(shorten=False)) in the same environment.
Reparse ==
    /\ pc = "constructed"
    /\ pc' = "reparsed"
    /\ obj2' = Ctor([DefaultArgs EXCEPT !.path = GetPath(obj, FALSE),
                                        !.env = args.env])
    /\ UNCHANGED <<args, obj, exc>>
    /\ UNCHANGED opvars
    /\ UNCHANGED cfvars

\* An operation that keeps the digest a tag lookup found in self.version.
OperateKeepingDigest(name, out) ==
    /\ pc = "constructed"
    /\ op' = name
    /\ calls' = out.calls
    /\ exc' = out.exc
    /\ ret' = out.ret
    /\ logged' = out.logged
    /\ faults' = out.faults
    /\ waited' = out.waited
    /\ obj' = IF out.calls # <<>> /\ out.calls[1].method = "get_tag"
                 /\ out.exc = "none"
              THEN [obj EXCEPT !.version = sTagDigest]
              ELSE obj
    /\ UNCHANGED <<pc, args, obj2>>
    /\ UNCHANGED cfvars

\* An operation on the constructed object, with the vendor's answers v.
Operate(name, out) ==
    /\ pc = "constructed"
    /\ op' = name
    /\ calls' = out.calls
    /\ exc' = out.exc
    /\ ret' = out.ret
    /\ logged' = out.logged
    /\ faults' = out.faults
    /\ waited' = out.waited
    /\ UNCHANGED <<pc, args, obj, obj2>>
    /\ UNCHANGED cfvars

\* obj.ls()
DoLs == \E v \in Vendor : Operate("ls", Ls(obj, v))

\* obj.get()
DoGet == \E v \in Vendor : Operate("get", Get(obj, v))

\* obj.delete()
DoDelete == \E v \in Vendor : Operate("delete", Delete(obj, v))

Next == Construct \/ Reparse

Spec == Init /\ [][Next]_vars

NextOps == Construct \/ DoLs \/ DoGet \/ DoDelete

SpecOps == InitOps /\ [][NextOps]_vars

\* obj.m(...) for one of the methods, with or without overrides.
DoMethod ==
    \E m \in Methods, k \in Overrides :
        \E v \in VendorOf(m) : Operate(m, Method(m, obj, k, v))

InitMethods == InitWith(MethodArgs)

NextMethods == Construct \/ DoMethod \/ DoLs \/ DoGet \/ DoDelete

SpecMethods == InitMethods /\ [][NextMethods]_vars

\* The process works with CloudFunctions and has no ArtifactRegistry object.
ARUnused ==
    /\ pc = "cloudfunctions"
    /\ args = DefaultArgs
    /\ obj = NoObj
    /\ exc = "none"
    /\ obj2 = NoObj
    /\ op = "none"
    /\ calls = <<>>
    /\ ret = "none"
    /\ logged = FALSE
    /\ faults = <<>>
    /\ waited = "no"

\* A fresh process: the class has been defined.
InitCache == ARUnused /\ CFUnused

\* CloudFunctions(name, project), one construction after the other.
CFConstruct ==
    /\ pc = "cloudfunctions"
    /\ Len(insts) < MaxInstances
    /\ \E name \in CFNames, project \in CFProjects :
          LET c == CFInit(clients, made, name, project, sEuropeWest2, CFEnv)
          IN  /\ clients' = c.clients
              /\ made' = c.made
              /\ insts' = Append(insts, c.inst)
    /\ UNCHANGED <<pc, args, obj, obj2, remote, disk, cfargs, steps, threads>>
    /\ UNCHANGED <<exc, opvars>>

NextCache == CFConstruct

SpecCache == InitCache /\ [][NextCache]_vars


\* A thread that has not called the constructor yet.
Idle == [pc |-> "idle", inst |-> Fields(None, None, None, None)]

\* A fresh process with MaxThreads threads, each about to construct an
\* instance.
InitThreads ==
    /\ ARUnused
    /\ clients = NoClients
    /\ made = <<>>
    /\ insts = <<>>
    /\ remote = {}
    /\ disk = {}
    /\ cfargs = NoArgs
    /\ steps = <<>>
    /\ threads = [t \in 1..MaxThreads |-> Idle]

\* What a step of thread t leaves alone besides the cache, the clients made
\* and the instances.
ThreadFrame ==
    /\ UNCHANGED <<pc, args, obj, obj2, remote, disk, cfargs, steps>>
    /\ UNCHANGED <<exc, opvars>>

\* Lines 28-33 in thread t: CloudFunctions(name, project) is entered.
ThreadStart(t) ==
    /\ pc = "cloudfunctions"
    /\ threads[t].pc = "idle"
    /\ \E name \in CFNames, project \in CFProjects :
          threads' = [threads EXCEPT ![t] =
                         [pc |-> "check",
                          inst |-> Fields(name, project, sEuropeWest2, CFEnv)]]
    /\ UNCHANGED <<clients, made, insts>>
    /\ ThreadFrame

\* Line 35 in thread t: the look in the cache.
ThreadCheck(t) ==
    /\ pc = "cloudfunctions"
    /\ threads[t].pc = "check"
    /\ threads' = [threads EXCEPT ![t].pc =
                      IF CacheHit(clients, threads[t].inst.project)
                      THEN "fetch" ELSE "create"]
    /\ UNCHANGED <<clients, made, insts>>
    /\ ThreadFrame

\* Line 36 in thread t: the cached client is taken; __init__ returns.
ThreadFetch(t) ==
    /\ pc = "cloudfunctions"
    /\ threads[t].pc = "fetch"
    /\ LET inst == [threads[t].inst EXCEPT
                       !.client = clients[threads[t].inst.project]]
       IN  /\ threads' = [threads EXCEPT ![t] = [pc |-> "done", inst |-> inst]]
           /\ insts' = Append(insts, inst)
    /\ UNCHANGED <<clients, made>>
    /\ ThreadFrame

\* Line 38 in thread t: a vendor client is made.
ThreadCreate(t) ==
    /\ pc = "cloudfunctions"
    /\ threads[t].pc = "create"
    /\ made' = Append(made, threads[t].inst.project)
    /\ threads' = [threads EXCEPT ![t].pc = "insert",
                                  ![t].inst.client = Len(made) + 1]
    /\ UNCHANGED <<clients, insts>>
    /\ ThreadFrame

\* Line 39 in thread t: the client is put in the cache; __init__ returns.
ThreadInsert(t) ==
    /\ pc = "cloudfunctions"
    /\ threads[t].pc = "insert"
    /\ clients' = Stored(clients, threads[t].inst.project, threads[t].inst.client)
    /\ threads' = [threads EXCEPT ![t].pc = "done"]
    /\ insts' = Append(insts, threads[t].inst)
    /\ UNCHANGED made
    /\ ThreadFrame

Start == \E t \in 1..MaxThreads : ThreadStart(t)
Check == \E t \in 1..MaxThreads : ThreadCheck(t)
Fetch == \E t \in 1..MaxThreads : ThreadFetch(t)
Create == \E t \in 1..MaxThreads : ThreadCreate(t)
Insert == \E t \in 1..MaxThreads : ThreadInsert(t)

NextThreads == Start \/ Check \/ Fetch \/ Create \/ Insert

SpecThreads == InitThreads /\ [][NextThreads]_vars

\* One instance has been constructed; the vendor holds any of its function
\* and another function of its location.
InitCF ==
    /\ ARUnused
    /\ \E name \in CFNames, project \in CFProjects :
          LET c == CFInit(NoClients, <<>>, name, project, sEuropeWest2, CFEnv)
          IN  /\ clients = c.clients
              /\ made = c.made
              /\ insts = <<c.inst>>
              /\ remote \in SUBSET {c.inst.function_id,
                                    FunctionId(c.inst.parent, <<"g">>)}
    /\ disk \in SUBSET LocalSources
    /\ cfargs = NoArgs
    /\ steps = <<>>
    /\ threads = <<>>

\* An operation on the instance a.self, with the outcome out.
CFOperate(name, a, out) ==
    /\ pc = "cloudfunctions"
    /\ op' = name
    /\ cfargs' = a
    /\ calls' = out.calls
    /\ exc' = out.exc
    /\ ret' = out.ret
    /\ logged' = out.logged
    /\ faults' = out.faults
    /\ waited' = out.waited
    /\ steps' = out.steps
    /\ remote' = out.remote
    /\ UNCHANGED <<pc, args, obj, obj2, clients, made, insts, disk, threads>>

\* f.ls()
DoCFLs ==
    \E s \in 1..Len(insts), answer \in {"ok", "error"} :
        CFOperate("ls", [NoArgs EXCEPT !.self = s],
                  CFLs(insts[s], remote, answer))

\* f.get() and f.get(name)
DoCFGet ==
    \E s \in 1..Len(insts), name \in Opt(<<"g">>) :
        \E answer \in GetAnswers(GetTarget(insts[s], name), remote) :
            CFOperate("get", [NoArgs EXCEPT !.self = s, !.name = name],
                      CFGet(insts[s], name, remote, answer))

\* f.exists()
DoCFExists ==
    \E s \in 1..Len(insts) :
        \E answer \in GetAnswers(insts[s].function_id, remote) :
            CFOperate("exists", [NoArgs EXCEPT !.self = s],
                      CFExists(insts[s], remote, answer))

\* f.call()
DoCFCall ==
    \E s \in 1..Len(insts), answer \in {"ok", "error"} :
        CFOperate("call", [NoArgs EXCEPT !.self = s],
                  CFCall(insts[s], remote, answer))

\* f.deploy(source, entry_point, runtime, if_exists, wait_to_complete=...)
DoCFDeploy ==
    \E s \in 1..Len(insts), source \in Sources,
       if_exists \in IfExists, wait \in BOOLEAN :
        \E v \in DeployAnswers(insts[s].function_id, remote) :
            CFOperate("deploy",
                      [NoArgs EXCEPT !.self = s, !.source = source,
                                     !.if_exists = if_exists, !.wait = wait],
                      Deploy(insts[s], source, source \in disk, if_exists, wait,
                             remote, v))

NextCF == DoCFLs \/ DoCFGet \/ DoCFExists \/ DoCFCall \/ DoCFDeploy

SpecCF == InitCF /\ [][NextCF]_vars

\* Either class in use, with every operation that wraps a vendor call.
InitWrappers == InitMethods \/ InitCF

NextWrappers == NextMethods \/ NextCF

SpecWrappers == InitWrappers /\ [][NextWrappers]_vars

(* ------------------------- reading the arguments ----------------------- *)

Constructed == pc \in {"constructed", "reparsed"}

\* The pieces of the path between "/".
Segs(path) == Split(path, sSlash)

\* s holds none of the given texts.
Free(s, texts) == \A t \in texts : FindFrom(s, t, 1) = 0

\* path is projects/P/locations/L/repositories/R/packages/I/versions/sha256:V
\* with no "/" inside P, L, R, I, V.
IsFullDigestPath(path) ==
    /\ path # None
    /\ Len(Segs(path)) = 2 * Len(Keys)
    /\ \A n \in 1..Len(Keys) : Segs(path)[2 * n - 1] = Keys[n]
    /\ StartsWith(Segs(path)[2 * Len(Keys)], sSha)

FullP(path) == Segs(path)[2]
FullL(path) == Segs(path)[4]
FullR(path) == Segs(path)[6]
FullI(path) == Segs(path)[8]
FullV(path) == DropFirst(Segs(path)[10], Len(sSha))

\* The five values hold no ":" and no "%2F", and P and V are not empty.
PlainFullValues(path) ==
    /\ \A v \in {FullP(path), FullL(path), FullR(path), FullI(path), FullV(path)} :
          Free(v, {sColon, sPct2F})
    /\ FullP(path) # <<>>
    /\ FullV(path) # <<>>

FullDigestParsed ==
    /\ obj.project = FullP(args.path)
    /\ obj.location = FullL(args.path)
    /\ obj.repository = FullR(args.path)
    /\ obj.image = FullI(args.path)
    /\ obj.version = FullV(args.path)
    /\ obj.tag = None
    /\ obj.level = "digest"

\* C1 as stated: for every P, L, R, I, V without "/", the fully qualified
\* digest path with no tag keyword is parsed into exactly these values at
\* level digest.
C1_AnyFullDigestPath ==
    (Constructed /\ IsFullDigestPath(args.path) /\ args.tag = None)
        => FullDigestParsed

\* C1 amended: the same, for values that also hold no ":" and no "%2F", with
\* P and V not empty.
C1_PlainFullDigestPath ==
    (Constructed /\ IsFullDigestPath(args.path) /\ args.tag = None
        /\ PlainFullValues(args.path))
        => FullDigestParsed

C1_Witness ==
    /\ pc = "constructed"
    /\ IsFullDigestPath(args.path) /\ args.tag = None
    /\ PlainFullValues(args.path)
    /\ obj.repository = <<"a">> /\ obj.image = <<"b">> /\ obj.level = "digest"

\* path is R/I:T with no "/" and no ":" inside R, I, T.
IsRepoImageTag(path) ==
    /\ path # None
    /\ Len(Segs(path)) = 2
    /\ Len(Split(Segs(path)[1], sColon)) = 1
    /\ Len(Split(Segs(path)[2], sColon)) = 2

ShortR(path) == Segs(path)[1]
ShortI(path) == Split(Segs(path)[2], sColon)[1]
ShortT(path) == Split(Segs(path)[2], sColon)[2]

RepoImageTagParsed ==
    /\ obj.repository = ShortR(args.path)
    /\ obj.image = ShortI(args.path)
    /\ obj.tag = ShortT(args.path)
    /\ obj.version = None
    /\ obj.level = "digest"

\* C2 as stated: for every R, I, T without "/" and ":", the path R/I:T gives
\* repository R, image I, tag T, no version and level digest, whatever the
\* version keyword.
C2_AnyRepoImageTag ==
    (Constructed /\ IsRepoImageTag(args.path)) => RepoImageTagParsed

\* C2 amended: the same, when R is not the word projects and T is not empty.
C2_RepoImageTagNamed ==
    (Constructed /\ IsRepoImageTag(args.path)
        /\ ShortR(args.path) # sProjects /\ ShortT(args.path) # <<>>)
        => RepoImageTagParsed

C2_Witness ==
    /\ pc = "constructed"
    /\ IsRepoImageTag(args.path)
    /\ ShortR(args.path) # sProjects /\ ShortT(args.path) # <<>>
    /\ args.version # None
    /\ obj.tag = <<"t">> /\ obj.version = None

\* C3: after construction, a non-empty tag means the version is None,
\* whichever of the two came from the path and whichever from a keyword.
C3_TagExcludesVersion == (Constructed /\ Truthy(obj.tag)) => obj.version = None

\* A digest in the path and a tag keyword: the tag wins.
C3_Witness ==
    /\ pc = "constructed"
    /\ Len(Split(args.path, sSha)) > 1
    /\ Truthy(args.tag)
    /\ obj.tag = args.tag /\ obj.version = None

\* A field is populated when it is neither None nor the empty string.
Populated(x) == x # None /\ Len(x) > 0

\* C4: after construction the level names the most specific populated field:
\* digest for tag or version, else image, repository, location, project in
\* that order, else None.
C4_LevelIsMostSpecific ==
    Constructed =>
        obj.level =
            CASE Populated(obj.tag) \/ Populated(obj.version) -> "digest"
              [] OTHER ->
            CASE Populated(obj.image) -> "image"
              [] OTHER ->
            CASE Populated(obj.repository) -> "repository"
              [] OTHER ->
            CASE Populated(obj.location) -> "location"
              [] OTHER ->
            CASE Populated(obj.project) -> "project"
              [] OTHER -> "None"

\* A version and an image but no tag: the level is digest, not image.
C4_Witness ==
    /\ pc = "constructed"
    /\ obj.tag = None /\ Populated(obj.version) /\ Populated(obj.image)
    /\ obj.level = "digest"

\* path is a shorthand path: a str that does not start a fully qualified name.
IsShorthand(path) == path # None /\ ~StartsWith(path, sProjectsSlash)

\* C5 as stated: with a shorthand path and keywords, the path's value wins
\* where the path has the component and the keyword stays where it has not:
\* the first segment is the repository, a path of one segment has no image,
\* a path without "sha256:" has no version (and the version is kept unless a
\* tag clears it), a path without ":" has no tag.
C5_KeywordKeptWhereNoPathValue ==
    (Constructed /\ IsShorthand(args.path) /\ args.path # <<>>) =>
        /\ obj.repository = Segs(args.path)[1]
        /\ Len(Segs(args.path)) = 1 => obj.image = args.image
        /\ (Free(args.path, {sSha}) /\ ~Truthy(obj.tag))
              => obj.version = args.version
        /\ Free(args.path, {sColon}) => obj.tag = args.tag

\* C6 as stated: with the default empty path, repository, image, tag and
\* location are the keywords passed, the version is the keyword unless a tag
\* clears it, and the level is the level of those keyword values.
C6_NoPathKeepsKeywords ==
    (Constructed /\ args.path = <<>>) =>
        /\ obj.repository = args.repository
        /\ obj.image = args.image
        /\ obj.tag = args.tag
        /\ obj.location = args.location
        /\ ~Truthy(args.tag) => obj.version = args.version
        /\ obj.level =
              GetLevel([project |-> obj.project, location |-> args.location,
                        repository |-> args.repository, image |-> args.image,
                        tag |-> args.tag,
                        version |-> ClearVersion(args.tag, args.version)])

\* path is R/S1/.../Sn with n >= 2, no empty segment and no ":" in it.
IsSlashedImagePath(path) ==
    /\ IsShorthand(path)
    /\ Len(Segs(path)) >= 3
    /\ \A i \in 1..Len(Segs(path)) : Segs(path)[i] # <<>>
    /\ Free(path, {sColon})

\* path is R/S1/.../Sn/sha256:V with n >= 2, no empty segment and no ":" but
\* the one of the digest marker.
IsSlashedImageDigestPath(path) ==
    /\ IsShorthand(path)
    /\ Len(Segs(path)) >= 4
    /\ \A i \in 1..Len(Segs(path)) : Segs(path)[i] # <<>>
    /\ Free(Join(sSlash, DropLast(Segs(path))), {sColon})
    /\ StartsWith(Segs(path)[Len(Segs(path))], sSha)
    /\ Free(DropFirst(Segs(path)[Len(Segs(path))], Len(sSha)), {sColon})

\* C7 as stated: the image of R/S1/.../Sn is S1/.../Sn whole, and
\* R/S1/.../Sn/sha256:V gives that image and version V.
C7_SlashedImageKeptWhole ==
    /\ (Constructed /\ IsSlashedImagePath(args.path)) =>
          /\ obj.repository = Segs(args.path)[1]
          /\ obj.image = Join(sSlash, DropFirst(Segs(args.path), 1))
    /\ (Constructed /\ IsSlashedImageDigestPath(args.path)) =>
          /\ obj.repository = Segs(args.path)[1]
          /\ obj.image = Join(sSlash, DropLast(DropFirst(Segs(args.path), 1)))
          /\ obj.version =
                ClearVersion(obj.tag,
                    DropFirst(Segs(args.path)[Len(Segs(args.path))], Len(sSha)))

\* C8 as stated: the constructor's parsing raises for no path value, None
\* included.
C8_ParsingNeverRaises == pc # "raised" /\ exc = "none"

\* Every field the level of o relies on is populated, and no image, tag or
\* version is the empty string.
WellFormed(o) ==
    /\ Populated(o.project)
    /\ Populated(o.location)
    /\ \A x \in {o.image, o.tag, o.version} : x = None \/ Populated(x)
    /\ o.level \in {"repository", "image", "digest"} => Populated(o.repository)
    /\ o.level \in {"image", "digest"} => Populated(o.image)

\* C9 as stated: the object built from the canonical fully qualified path of
\* a constructed object (at any level, with every field its level relies on
\* populated and no empty image, tag or version) has the same project, location, repository, image, version,
\* tag and level.
C9_RoundTrip ==
    (pc = "reparsed" /\ WellFormed(obj)) =>
        /\ obj2.project = obj.project
        /\ obj2.location = obj.location
        /\ obj2.repository = obj.repository
        /\ obj2.image = obj.image
        /\ obj2.version = obj.version
        /\ obj2.tag = obj.tag
        /\ obj2.level = obj.level

\* C10: an operation called at a level where it is undefined raises
\* ValueError and makes no vendor call: ls at the project level, get and
\* delete at the project and location levels.
C10_UndefinedLevelRaises ==
    /\ (op = "ls" /\ obj.level = "project")
          => (exc = "ValueError" /\ calls = <<>>)
    /\ (op \in {"get", "delete"} /\ obj.level \in {"project", "location"})
          => (exc = "ValueError" /\ calls = <<>>)

C10_Witness ==
    /\ op = "get" /\ obj.level = "location"
    /\ exc = "ValueError" /\ calls = <<>> /\ ret = "none"

(* ----------------------- calling the vendor client --------------------- *)

\* The process works with an ArtifactRegistry object, or with CloudFunctions.
UsesAR == pc = "constructed"
UsesCF == pc = "cloudfunctions"

\* The levels at which ls(), get() and delete() have a branch.
DefinedAt(name, level) ==
    \/ name = "ls" /\ level \in {"location", "repository", "image"}
    \/ name \in {"get", "delete"} /\ level \in {"repository", "image", "digest"}

\* ls(), get() or delete() was called where it is defined and returned.
Succeeded == UsesAR /\ DefinedAt(op, obj.level) /\ exc = "none"

ThroughTag == op \in {"get", "delete"} /\ Truthy(obj.tag)

\* C11 as stated: every successful ls(), get() or delete() made exactly one
\* vendor client call, the digest level reached through a tag included.
C11_OneVendorCall == Succeeded => Len(calls) = 1

\* C11: every successful ls(), get() or delete() made exactly one vendor
\* client call, except get() and delete() on a locator with a tag, which made
\* two: get_tag, and then get_version or delete_tag.
C11_OneCallOrLookupFirst ==
    Succeeded =>
        IF ThroughTag
        THEN /\ Len(calls) = 2
             /\ calls[1].method = "get_tag"
             /\ calls[2].method = IF op = "get" THEN "get_version" ELSE "delete_tag"
        ELSE Len(calls) = 1

C11_Witness == Succeeded /\ op = "get" /\ Truthy(obj.tag) /\ Len(calls) = 2

\* C12: a failure the vendor raised in a client call or in result() inside
\* an operation leaves the operation as that exception.
C12_VendorFailuresPropagate ==
    (op # "none" /\ faults # <<>>) =>
        /\ Len(faults) = 1
        /\ exc = Raised(faults[1])

\* A long-running delete or deploy was called and returned to its caller.
DeleteReturned ==
    /\ UsesAR
    /\ op \in {"delete", "delete_repository", "delete_image", "delete_version",
               "delete_tag"}
    /\ exc = "none"
    /\ ret = "operation"
DeployReturned ==
    UsesCF /\ op = "deploy" /\ exc = "none" /\ ret = "operation"

\* C13 as stated: a long-running delete or deploy returns only after
\* result() has returned, whatever its arguments.
C13_ReturnsAfterResult == (DeleteReturned \/ DeployReturned) => waited = "ok"

\* C13: a long-running delete returns only after result() was called and has
\* ended, by returning or, in delete_version, by a FailedPrecondition; a
\* deploy with wait_to_complete returns only after result() has returned,
\* and one without it never calls result().
C13_ReturnsAfterResultIfWaiting ==
    /\ DeleteReturned =>
          \/ waited = "ok"
          \/ /\ waited = "FailedPrecondition"
             /\ calls[Len(calls)].method = "delete_version"
    /\ DeployReturned => waited = (IF cfargs.wait THEN "ok" ELSE "no")

C13_Witness == DeployReturned /\ cfargs.wait /\ waited = "ok"

\* The clients made for project p.
MadeFor(p) == {k \in 1..Len(made) : made[k] = p}

\* C14: after any constructions, at most one client has been made for a
\* project, every instance holds the client cached for its project, two
\* instances of one project hold the same client, and no construction
\* replaces or removes an entry of the cache.
C14_OneClientPerProject ==
    /\ [](/\ \A k \in 1..Len(made) : Cardinality(MadeFor(made[k])) = 1
          /\ \A n \in 1..Len(insts) :
                /\ insts[n].project \in DOMAIN clients
                /\ insts[n].client = clients[insts[n].project]
          /\ \A m, n \in 1..Len(insts) :
                insts[m].project = insts[n].project =>
                    insts[m].client = insts[n].client)
    /\ [][\A p \in DOMAIN clients :
             p \in DOMAIN clients' /\ clients'[p] = clients[p]]_vars

C14_Witness ==
    /\ Len(insts) = 3
    /\ insts[1].project = insts[2].project
    /\ insts[1].client = insts[2].client
    /\ insts[3].project # insts[1].project
    /\ insts[3].client # insts[1].client
    /\ Len(made) = 2

\* C15: no operation, with or without overrides, changes a field of the
\* object, and level, path and parent stay what _get_level(), _get_path()
\* and _get_parent() give for the fields.
C15_OperationsKeepFields ==
    /\ [](UsesAR => /\ obj.level = GetLevel(obj)
                    /\ obj.path = GetPath(obj, TRUE)
                    /\ obj.parent = GetParent(obj))
    /\ [][UsesAR => obj' = obj]_vars

C15_Witness ==
    /\ UsesAR
    /\ op = "delete_image"
    /\ exc = "none"
    /\ calls[1].name # ImageName(obj, obj.repository, obj.image)

\* The instance the last CloudFunctions operation was called on.
Self == insts[cfargs.self]

\* C16: exists() returns True exactly when the function is present at the
\* vendor, whatever get_function answered.
C16_ExistsIffPresent ==
    (UsesCF /\ op = "exists") =>
        /\ ret \in {"True", "False"}
        /\ ret = "True" <=> Self.function_id \in remote

\* C17: at the repository, image and digest level the name in the first
\* vendor call of get() and delete() is _get_path(shorten=False).
C17_FirstCallNamesPath ==
    (UsesAR /\ op \in {"get", "delete"} /\ calls # <<>>
       /\ obj.level \in {"repository", "image", "digest"}) =>
        calls[1].name = GetPath(obj, FALSE)

\* C18: the delete_tag call of delete() on a locator with a tag names the
\* tag, .../packages/I/tags/T.
C18_DeleteTagNamesTag ==
    (UsesAR /\ op = "delete" /\ Truthy(obj.tag)) =>
        \A n \in 1..Len(calls) :
            calls[n].method = "delete_tag" =>
                calls[n].name = TagName(obj, obj.repository, obj.image, obj.tag)

\* The places of the calls of a method among the calls made.
Places(cs, method) == {n \in 1..Len(cs) : cs[n].method = method}

\* The deployment reached deploy_from_repo.
Reached(ss, what) == \E n \in 1..Len(ss) : ss[n].what = what

\* C19: a deployment that reaches deploy_from_repo asks get_function first
\* and then calls exactly one of update_function and create_function:
\* update_function exactly when the function exists at the vendor and
\* if_exists is "REPLACE".
C19_UpdateIffExistsAndReplace ==
    [][(UsesCF /\ op' = "deploy" /\ Reached(steps', "deploy_from_repo")) =>
          LET updates == Places(calls', "update_function")
              creates == Places(calls', "create_function")
              checks  == Places(calls', "get_function")
          IN  /\ Cardinality(updates \cup creates) = 1
              /\ \A n \in updates \cup creates : \E c \in checks : c < n
              /\ updates # {} <=>
                    /\ insts[cfargs'.self].function_id \in remote
                    /\ cfargs'.if_exists = "REPLACE"]_vars

IsRemote(source) == StartsWith(source, sHttps) \/ StartsWith(source, sGs)

\* C20: deploy() sends a source that starts with https:// or gs:// to
\* deploy_from_repo and any other to deploy_from_zip, which raises
\* FileNotFoundError before it zips, uploads or calls the vendor when the
\* source is not on the disk.
C20_RoutesAndChecksDisk ==
    (UsesCF /\ op = "deploy") =>
        /\ steps # <<>>
        /\ steps[1].what = (IF IsRemote(cfargs.source) THEN "deploy_from_repo"
                            ELSE "deploy_from_zip")
        /\ (~IsRemote(cfargs.source) /\ cfargs.source \notin disk) =>
              /\ exc = "FileNotFoundError"
              /\ calls = <<>>
              /\ ~Reached(steps, "zip_directory")
              /\ ~Reached(steps, "Storage.upload")
              /\ ~Reached(steps, "deploy_from_repo")

C20_Witness ==
    /\ UsesCF
    /\ op = "deploy"
    /\ ~IsRemote(cfargs.source)
    /\ cfargs.source \notin disk
    /\ exc = "FileNotFoundError"

(* --------------------- tags, listings and log lines -------------------- *)

\* The name the vendor gives the version a tag of obj points at, and the
\* prefix get_version_from_tag cuts off it.
TagVersionName == VersionName(obj, obj.repository, obj.image, sTagDigest)
TagVersionPrefix == ImageName(obj, obj.repository, obj.image) \o sVersionsDir

\* C21: get() and delete() on a locator with a tag either stop at the
\* lookup, with the vendor's failure or, when the lookup found no tag, with
\* ValueError, or go on to one get_version or delete_tag call for the digest
\* that is the version name of the tag without its
\* <parent>/repositories/R/packages/I/versions/sha256: prefix.
C21_NoTagRaisesElseDigest ==
    (UsesAR /\ ThroughTag) =>
        /\ calls # <<>>
        /\ calls[1].method = "get_tag"
        /\ \/ Len(calls) = 1 /\ exc \in {"ValueError", "VendorError"}
           \/ /\ Len(calls) = 2
              /\ StartsWith(TagVersionName, TagVersionPrefix)
              /\ calls[2].name =
                    TagVersionPrefix
                    \o DropFirst(TagVersionName, Len(TagVersionPrefix))
        /\ exc = "ValueError" => (Len(calls) = 1 /\ faults = <<>>)

C21_Witness ==
    /\ UsesAR
    /\ ThroughTag
    /\ exc = "ValueError"
    /\ faults = <<>>
    /\ Len(calls) = 1

\* C22: ls() either makes a vendor list call, and returns a list unless the
\* vendor failed, or raises ValueError; it never returns without one of the
\* two.
C22_LsListsOrRaises ==
    (UsesAR /\ op = "ls") =>
        \/ /\ Len(calls) = 1
           /\ calls[1].method \in {"list_repositories", "list_packages",
                                   "list_versions"}
           /\ \/ exc = "none" /\ ret = "list"
              \/ exc = "VendorError"
        \/ calls = <<>> /\ exc = "ValueError"

\* C23: a delete that wrote its "Deleted ..." log line and returned had
\* result() return before.
C23_LoggedAfterResult ==
    (UsesAR /\ logged /\ exc = "none") => waited = "ok"

\* The vendor calls whose request names one function.
NamesFunction ==
    {"get_function", "call_function", "create_function", "update_function"}

\* C24: every request of get(), exists(), call() and deploy() that names the
\* function of the instance names it
\* projects/{project}/locations/{location}/functions/{name}.
C24_RequestsUseFunctionId ==
    (UsesCF /\ op \in {"get", "exists", "call", "deploy"}
       /\ cfargs.name = None) =>
        \A n \in 1..Len(calls) :
            calls[n].method \in NamesFunction =>
                calls[n].name =
                    FunctionId(CFParent(Self.project, Self.location), Self.name)

\* C25: whatever the interleaving of the threads, at most one vendor client
\* has been made for a project, and the instances constructed for one
\* project hold one client.
C25_ConcurrentOneClient ==
    UsesCF =>
        /\ \A k \in 1..Len(made) : Cardinality(MadeFor(made[k])) <= 1
        /\ \A m, n \in 1..Len(insts) :
              insts[m].project = insts[n].project =>
                  insts[m].client = insts[n].client

====
